---- MODULE Spec2Model ----
(***************************************************************************)
(* Token-bucket rate limiter of internal/ratelimiter (token-bucket.go).    *)
(*                                                                         *)
(* Time is counted in clock ticks (the resolution of time.Duration).  The  *)
(* float64 token count is kept exactly, as an integer number of            *)
(* 1/window-th parts of a token: with rate = burst / window tokens per     *)
(* tick, "elapsed * rate" tokens is "elapsed * burst" parts, one token is  *)
(* "window" parts (One) and the capacity is "burst * window" parts (Cap).  *)
(* The conversion float64 -> time.Duration of the retry delay truncates    *)
(* toward zero to a whole number of ticks.                                 *)
(*                                                                         *)
(* List cache of internal/store/cache (GetListWithCache, buildCacheKey,    *)
(* ExecStore.GetList / SetList) with the list handler that calls it and    *)
(* the handlers that write the execs table.  A []*Exec value and its JSON  *)
(* payload are kept apart (nil <-> null, []*Exec{} <-> []); keys are the   *)
(* strings the code builds; a redis entry expires execListTTL after its    *)
(* SetEx.  The cache has its own clock, in ticks of TickSeconds.           *)
(*                                                                         *)
(* Request pipeline of cmd/api (mount): RateLimiterMiddleware, the router, *)
(* AuthTokenMiddleware, requireRole and the register and login handlers.   *)
(* A token is the claims it carries, with "sub" either a JSON number or a  *)
(* JSON string, and whether the application signed it.                     *)
(*                                                                         *)
(* AttendanceStore.BulkMark: the transaction, statement by statement.      *)
(***************************************************************************)
EXTENDS Integers, FiniteSets, Sequences, TLC

\* ---------------------------------------------------------------- bounds
\* the clock runs for three windows (the first sweep that can find a bucket
\* expired) and this many ticks more
MaxOvertime == 0

\* the clock of the cache model runs for this many ticks
MaxCacheTicks == 4

Clients == {"c1", "c2"}
Threads == {"t1", "t2"}

Nil == 0
NumBuckets == Cardinality(Clients) + Cardinality(Threads)
BucketIds == 1..NumBuckets

VARIABLES
    serves,     \* the clients whose requests each goroutine handles
    record,     \* whether the history variables below ret are kept
    audit,      \* whether each bucket keeps its last admission (history)
    burst,      \* rl.burst   (bucket capacity, tokens)
    window,     \* rl.window  (ticks); rl.rate = burst / window tokens per tick
    now,        \* the clock read by time.Now()
    clients,    \* rl.clients : ip -> bucket pointer (Nil = no entry)
    heap,       \* the tokenBucket objects: pointer -> fields
    pc,         \* position of each request goroutine inside Allow
    ip,         \* the ip argument of the running Allow call
    tb,         \* the tb local of getBucket / Allow
    spc,        \* position of the cleanup goroutine
    tickC,      \* ticker.C, a channel of capacity 1 (Nil = empty)
    nextTick,   \* time at which the ticker fires next
    sweepNow,   \* the loop variable "now" of the cleanup goroutine
    todo,       \* keys the running Range has still to visit
    delKey,     \* key found expired, about to be deleted
    ret,        \* the last return of Allow and what it observed (history)
    hist,       \* per client: the latest Allow call so far (history)
    removed,    \* per client: was the bucket swept since its last call
    ref,        \* per client: the bucket of a limiter that is never swept
    expect      \* per goroutine: the outcome that limiter gives its call

\* the list cache of internal/store/cache and the store behind it
VARIABLES
    asks,       \* the list queries each goroutine's requests carry
    rnow,       \* the clock of the cache model, in ticks of TickSeconds
    table,      \* the execs table: id -> revision of the row (0 = no row)
    rdb,        \* redis: key -> the last entry set (payload, expiry time)
    lpc,        \* position of each request goroutine in GetListWithCache
    lpq,        \* the PaginatedQuery of the running list request
    lkey,       \* the key local of GetListWithCache
    llist,      \* the list local: what fetcher(ctx) returned, and when
    lobs,       \* what the running call observed on its cache read (history)
    lret        \* the last return of GetListWithCache (history)

limiterVars == <<serves, record, audit, burst, window, now, clients, heap, pc, ip, tb,
                 spc, tickC, nextTick, sweepNow, todo, delKey, ret, hist,
                 removed, ref, expect>>
cacheVars == <<asks, rnow, table, rdb, lpc, lpq, lkey, llist, lobs, lret>>

\* the request pipeline of mount: middlewares, routes, users and tokens
VARIABLES
    limiterOn,  \* app.config.ratelimiter.Enabled
    users,      \* the execs, teachers and students tables (who exists)
    held,       \* the token the client got from its last login or register
    rq          \* the request under way, or the last one served (history)

apiVars == <<limiterOn, users, held, rq>>

\* AttendanceStore: the attendance records of one date and a BulkMark call
VARIABLES
    att,        \* attendance_records: student id -> status ("" is no row)
    bpc,        \* where the BulkMark call stands
    bmap,       \* its statuses map ("" is no key)
    btodo,      \* keys the range loop has not visited yet
    btx,        \* the rows written inside the open transaction
    bret        \* the call that returned last (history)

bulkVars == <<att, bpc, bmap, btodo, btx, bret>>
vars == <<limiterVars, cacheVars, apiVars, bulkVars>>

config == <<serves, record, audit, burst, window>>
sweepVars == <<spc, tickC, nextTick, sweepNow, todo, delKey>>
callVars == <<pc, ip, tb>>

Horizon == 3 * window + MaxOvertime

\* ------------------------------------------------------------ arithmetic
Min(a, b) == IF a < b THEN a ELSE b

\* one token, and float64(rl.burst), in parts
One == window
Cap == burst * window

\* a pointer that refers to no live bucket
NoAdm == [tokens |-> 0, at |-> 0, denied |-> 0]

FreeBucket == [tokens |-> 0, lastRefill |-> 0, locked |-> FALSE,
               calls |-> 0, inst |-> FALSE, adm |-> NoAdm]

\* history of a new bucket: the tokens it starts with, and when
Born(tokens) ==
    IF audit THEN [tokens |-> tokens, at |-> now, denied |-> 0] ELSE NoAdm

NewBucketShort == [tokens |-> Cap - One, lastRefill |-> now, locked |-> FALSE,
                   calls |-> 0, inst |-> record, adm |-> Born(Cap - One)]

\* tokenBucket{tokens: float64(rl.burst), lastRefill: time.Now()}
NewBucket == [tokens |-> Cap, lastRefill |-> now, locked |-> FALSE,
              calls |-> 0, inst |-> record, adm |-> Born(Cap)]

RefillNoCap(tokens, elapsed) == tokens + elapsed * burst

RefillWhole(tokens, elapsed) ==
    Min(tokens + ((elapsed * burst) \div One) * One, Cap)

RefillSlow(tokens, elapsed) == Min(tokens + elapsed, Cap)

\* tb.tokens += elapsed * rl.rate; if tb.tokens > burst { tb.tokens = burst }
Refill(tokens, elapsed) == Min(tokens + elapsed * burst, Cap)

HasTokenStrict(tokens) == tokens > One

\* if tb.tokens >= 1
HasToken(tokens) == tokens >= One

DebitAlways(tokens) == tokens - One

\* tb.tokens -= 1 on admission, untouched on denial
Debit(tokens) == IF HasToken(tokens) THEN tokens - One ELSE tokens

WaitRoundUp(tokens) == (One - tokens + burst - 1) \div burst

\* time.Duration((1 - tb.tokens) / rl.rate * float64(time.Second))
Wait(tokens) == (One - tokens) \div burst

ExpiredNever(tickTime, lastRefill) == FALSE

\* now.Sub(tb.lastRefill) > rl.window*2
Expired(tickTime, lastRefill) == tickTime - lastRefill > window * 2

UnlockForgotten(b) == b

\* defer tb.Unlock()
Unlock(b) == [b EXCEPT !.locked = FALSE]

AcquireAlways(b) == TRUE

\* tb.Lock() returns only when no other goroutine holds the bucket's mutex
Acquire(b) == ~heap[b].locked

\* ------------------------------------------------------------------ heap
Referenced(cl, tbs, b) ==
    \/ \E c \in Clients : cl[c] = b
    \/ \E t \in Threads : tbs[t] = b

\* unreachable buckets are reclaimed by the garbage collector
Collect(h, cl, tbs) ==
    [b \in BucketIds |-> IF Referenced(cl, tbs, b) THEN h[b] ELSE FreeBucket]

FreshId == CHOOSE b \in BucketIds :
              /\ ~Referenced(clients, tb, b)
              /\ \A b2 \in BucketIds : ~Referenced(clients, tb, b2) => b <= b2

NoRet == [ip |-> "", admitted |-> FALSE, wait |-> 0, post |-> 0, left |-> 0,
          at |-> 0, k |-> 0, inst |-> FALSE, gap |-> -1, prevWait |-> -1,
          expected |-> FALSE, swept |-> "no", once |-> FALSE, denials |-> 0,
          onceFrom |-> NoAdm]

NoCall == [at |-> -1, wait |-> -1]

\* ------------------------------------------------------- list cache: data
\* The cache model counts time in ticks of TickSeconds seconds.
TickSeconds == 10

\* const execListTTL = 30 * time.Second
execListTTL == 30 \div TickSeconds

SetExShortTTL == execListTTL - 1

\* the expiration SetList hands to rdb.SetEx, in ticks
SetExTTL == execListTTL

\* ids of the rows the execs table can hold
Ids == {1}

\* the errors the store's query can return
FetchErrors == {"context deadline exceeded", "sql: database is closed"}
NoErr == ""
RedisErr == "redis: connection refused"

\* a []*Exec value: the nil slice, or a slice of rows.  Password carries the
\* tag json:"-"; GetAll does not scan it, so a fetched row holds "".
NilList == [nil |-> TRUE, elems |-> <<>>]
Slice(rows) == [nil |-> FALSE, elems |-> rows]

\* json.Marshal of a []*Exec: null for the nil slice, else an array of
\* objects without the password
Marshal(list) ==
    [null |-> list.nil,
     objs |-> [i \in 1..Len(list.elems) |->
                 [id |-> list.elems[i].id, name |-> list.elems[i].name]]]

\* json.Unmarshal into a nil []*Exec: null leaves it nil, an array (empty
\* or not) makes a slice whose rows have the zero password
Unmarshal(data) ==
    IF data.null THEN NilList
    ELSE Slice([i \in 1..Len(data.objs) |->
                  [id |-> data.objs[i].id, name |-> data.objs[i].name,
                   password |-> ""]])

\* the queries the list requests carry: the handler's defaults with the two
\* offsets 0 and 1
Queries == {[limit |-> 10, offset |-> o, sortBy |-> "id", order |-> "asc"] :
              o \in {0, 1}}
NoQuery == [limit |-> 0, offset |-> 0, sortBy |-> "", order |-> ""]

\* params := map[string]any{"limit": ..., "offset": ..., "sort": ..., "order": ...}
Params(pq) ==
    [n \in {"limit", "offset", "sort", "order"} |->
        IF n = "limit" THEN [int |-> TRUE, n |-> pq.limit, s |-> ""]
        ELSE IF n = "offset" THEN [int |-> TRUE, n |-> pq.offset, s |-> ""]
        ELSE IF n = "sort" THEN [int |-> FALSE, n |-> 0, s |-> pq.sortBy]
        ELSE [int |-> FALSE, n |-> 0, s |-> pq.order]]

\* the orders in which "for k := range params" can visit the names
RangeOrders(params) ==
    {o \in [1..Cardinality(DOMAIN params) -> DOMAIN params] :
        \A n \in DOMAIN params : \E i \in DOMAIN o : o[i] = n}

\* the parameter names in the byte order of Go string comparison
NameOrder == <<"limit", "offset", "order", "sort">>
Rank(n) == CHOOSE i \in DOMAIN NameOrder : NameOrder[i] = n

\* insert name n into the sorted sequence keys
RECURSIVE Insert(_, _)
Insert(keys, n) ==
    IF keys = <<>> THEN <<n>>
    ELSE IF Rank(n) < Rank(Head(keys)) THEN <<n>> \o keys
    ELSE <<Head(keys)>> \o Insert(Tail(keys), n)

SortStringsNoop(keys) == keys

\* sort.Strings(keys)
RECURSIVE SortStrings(_)
SortStrings(keys) ==
    IF keys = <<>> THEN <<>>
    ELSE Insert(SortStrings(Tail(keys)), Head(keys))

\* fmt.Sprintf("%v", v) of an int or a string
Sprint(v) == IF v.int THEN ToString(v.n) ELSE v.s

\* the key after the first n rounds of the loop that appends "k=v"
RECURSIVE KeyAfter(_, _, _, _)
KeyAfter(prefix, params, keys, n) ==
    IF n = 0 THEN prefix \o ":"
    ELSE KeyAfter(prefix, params, keys, n - 1)
            \o (IF n > 1 THEN "&" ELSE "")
            \o keys[n] \o "=" \o Sprint(params[keys[n]])

\* buildCacheKey, with range visiting the names in the order iter
buildCacheKey(prefix, params, iter) ==
    LET keys == SortStrings(iter)
    IN KeyAfter(prefix, params, keys, Len(keys))

ListPrefix == "students:list"

\* the keys under which the list requests cache
CacheKeys == {buildCacheKey(ListPrefix, Params(q), NameOrder) : q \in Queries}

\* a key never set.  An entry stays in rdb after its expiration; redis no
\* longer returns it.  fat, wat and src are history: when the list was
\* fetched, when it was set, and the list itself.
NoEntry == [live |-> FALSE, data |-> Marshal(NilList), exp |-> 0,
            fat |-> 0, wat |-> 0, src |-> NilList]

\* redis holds key at time rnow
Holds(key) == rdb[key].live /\ rdb[key].exp > rnow

\* ExecStore.GetAll: the rows in id order, OFFSET pq.offset LIMIT pq.limit,
\* in a slice made by []*Exec{} (never nil)
RECURSIVE RowsFrom(_, _)
RowsFrom(tbl, i) ==
    IF i > Cardinality(Ids) THEN <<>>
    ELSE (IF tbl[i] = 0 THEN <<>>
          ELSE <<[id |-> i, name |-> tbl[i], password |-> ""]>>)
         \o RowsFrom(tbl, i + 1)

GetAll(pq, tbl) ==
    LET all == RowsFrom(tbl, 1)
    IN Slice(SubSeq(all, pq.offset + 1, Min(Len(all), pq.offset + pq.limit)))

\* ExecStore.GetList: redis.Nil gives (nil, nil), any other error (nil, err)
GetList(key, up) ==
    IF ~up THEN [list |-> NilList, err |-> RedisErr]
    ELSE IF ~Holds(key) THEN [list |-> NilList, err |-> NoErr]
    ELSE [list |-> Unmarshal(rdb[key].data), err |-> NoErr]

IsHitNonEmpty(cached) == cached.err = NoErr /\ Len(cached.list.elems) > 0

IsHitAnyRead(cached) == cached.err = NoErr

\* GetListWithCache: err == nil && cached != nil
IsHit(cached) == cached.err = NoErr /\ ~cached.list.nil

ReturnFetchErrSwallowed(ferr) == [list |-> NilList, err |-> NoErr]

\* GetListWithCache: if err != nil { return nil, err }
ReturnFetchErr(ferr) == [list |-> NilList, err |-> ferr]

ReturnWriteErr(list, werr) == [list |-> list, err |-> werr]

\* GetListWithCache: _ = rdb.SetList(ctx, key, list); return list, nil
ReturnFetched(list, werr) == [list |-> list, err |-> NoErr]

\* the history kept of a call
NoRead == [list |-> NilList, err |-> NoErr]
NoObs == [cached |-> NoRead, due |-> FALSE]
NoFetch == [list |-> NilList, at |-> 0]
NoListRet == [t |-> "", pq |-> NoQuery, key |-> "", list |-> NilList,
              err |-> NoErr, cached |-> NoRead, due |-> FALSE,
              fetched |-> FALSE,
              ferr |-> NoErr, flist |-> NilList, sets |-> 0, wrote |-> FALSE,
              age |-> 0, was |-> NilList, reads |-> 0, panicked |-> FALSE]

\* var rdb *redis.Client: it stays nil when redisCfg.enabled is false
NilClient == <<>>

\* cache.NewRedisClient: a client of a redis that holds nothing
NewRedisClient == [k \in CacheKeys |-> NoEntry]

\* cache.NewRedisStorage(rdb), the table empty, no request under way; qs
\* tells which list queries each goroutine will serve
NewRedisStorage(client, qs) ==
    /\ asks = qs
    /\ rnow = 0
    /\ table = [i \in Ids |-> 0]
    /\ rdb = client
    /\ lpc = [t \in Threads |-> "idle"]
    /\ lpq = [t \in Threads |-> NoQuery]
    /\ lkey = [t \in Threads |-> ""]
    /\ llist = [t \in Threads |-> NoFetch]
    /\ lobs = [t \in Threads |-> NoObs]
    /\ lret = NoListRet

\* ------------------------------------------------- request pipeline: data
\* ids of the rows of the execs table, and of the teachers and students
\* tables
ExecIds == {1, 2}
PersonIds == {1}

\* the routes of mount: public ones, and ones inside the groups that use
\* AuthTokenMiddleware and requireRole
PublicRoutes == {"execs.register", "execs.login", "teachers.login",
                 "students.login"}
GroupRoutes == {"execs.get", "teachers.register", "teachers.delete",
                "students.register"}

\* the route lies in a r.Group(...) that uses the two middlewares
Protected(route) == route \in GroupRoutes

\* requireRole("admin", "manager"), the same set in the three groups
RoleSet(route) == {"admin", "manager"}

\* the table a role's users live in
TableOf(role) ==
    IF role \in {"admin", "manager"} THEN "execs"
    ELSE IF role = "teacher" THEN "teachers" ELSE "students"

\* GetByID finds a row
Exists(tbl, id) == id \in DOMAIN users[tbl] /\ users[tbl][id] # ""

\* a JWT: signed tells whether the application's secret signed it, sub and
\* role are the claims as encoded in JSON; via is history
NoToken == [signed |-> FALSE, via |-> "", sub |-> [str |-> FALSE, v |-> 0],
            role |-> ""]
ForgedToken == [signed |-> FALSE, via |-> "forged",
                sub |-> [str |-> FALSE, v |-> 1], role |-> "admin"]

\* loginHandler: auth.Claims with RegisteredClaims.Subject = fmt.Sprint(id),
\* so "sub" is a JSON string
LoginClaims(id, role) == [sub |-> [str |-> TRUE, v |-> id], role |-> role]

\* createAndRespondJWT: jwt.MapClaims{"sub": id, "role": role, ...}, so
\* "sub" is a JSON number
RegisterClaims(id, role) == [sub |-> [str |-> FALSE, v |-> id], role |-> role]

\* authenticator.GenerateToken: signs the claims
GenerateToken(claims, via) ==
    [signed |-> TRUE, via |-> via, sub |-> claims.sub, role |-> claims.role]

\* authenticator.ValidateToken: accepts what the application signed
ValidateToken(tok) == tok.signed

\* strconv.ParseInt(fmt.Sprintf("%.f", claims["sub"]), 10, 64): the verb
\* formats a float64 (a JSON number); a string comes out as
\* "%!f(string=7)", which ParseInt rejects
ParseSub(sub) ==
    IF sub.str THEN [ok |-> FALSE, id |-> 0] ELSE [ok |-> TRUE, id |-> sub.v]

\* the Role of the AuthUser built in each case of the switch
AuthUserRole(role) == IF role \in {"admin", "manager"} THEN "admin" ELSE role

NoUser == [id |-> 0, role |-> ""]
Rejected == [ok |-> FALSE, user |-> NoUser]

\* AuthTokenMiddleware up to context.WithValue
AuthToken(hdr, tok) ==
    IF hdr \in {"none", "malformed"} THEN Rejected
    ELSE IF ~ValidateToken(tok) THEN Rejected
    ELSE LET p == ParseSub(tok.sub)
         IN IF ~p.ok THEN Rejected
            ELSE IF tok.role \notin {"admin", "manager", "student", "teacher"}
            THEN Rejected
            ELSE IF ~Exists(TableOf(tok.role), p.id) THEN Rejected
            ELSE [ok |-> TRUE,
                  user |-> [id |-> p.id, role |-> AuthUserRole(tok.role)]]

RequireRoleAny(user, roleSet) == 0

\* requireRole: 0 stands for next.ServeHTTP
RequireRole(user, roleSet) ==
    IF user = NoUser THEN 401
    ELSE IF user.role \notin roleSet THEN 403
    ELSE 0

PassesLimiterAlways(enabled, allow) == TRUE

\* RateLimiterMiddleware reaches next.ServeHTTP
PassesLimiter(enabled, allow) == ~enabled \/ allow

\* what ratelimiter.Limiter.Allow can return
AllowResults == {[ok |-> TRUE, wait |-> 0], [ok |-> FALSE, wait |-> 0],
                 [ok |-> FALSE, wait |-> 1]}

\* the requests clients send: route, payload (role to register, account to
\* log in to)
NoArg == [role |-> "", id |-> 0]
Requests ==
    {[route |-> "execs.register", arg |-> [role |-> r, id |-> 0]] :
        r \in {"admin", "manager"}}
    \cup {[route |-> "execs.login", arg |-> [role |-> "", id |-> i]] :
            i \in ExecIds}
    \cup {[route |-> x, arg |-> [role |-> "", id |-> i]] :
            x \in {"teachers.login", "students.login"}, i \in PersonIds}
    \cup {[route |-> x, arg |-> NoArg] :
            x \in {"execs.get", "teachers.register", "students.register"}}
    \cup {[route |-> "teachers.delete", arg |-> [role |-> "", id |-> i]] :
            i \in PersonIds}

NoRequest == [stage |-> "idle", route |-> "", arg |-> NoArg, addr |-> "",
              hdr |-> "", tok |-> NoToken, allowCalls |-> 0, allowKey |-> "",
              allowed |-> FALSE, nextCalls |-> 0, trace |-> <<>>,
              accepted |-> FALSE, existed |-> FALSE, user |-> NoUser,
              ran |-> 0, created |-> 0, status |-> 0, sent |-> -1,
              wait |-> -1]

\* the application of main with empty tables and no request yet
NewApplication(enabled) ==
    /\ limiterOn = enabled
    /\ users = [execs |-> [i \in ExecIds |-> ""],
                teachers |-> [i \in PersonIds |-> ""],
                students |-> [i \in PersonIds |-> ""]]
    /\ held = NoToken
    /\ rq = NoRequest

\* ---------------------------------------------------- attendance: data
Students == {1, 2}
Statuses == {"present", "absent"}

\* the statuses maps a caller can pass
StatusMaps == [Students -> Statuses \cup {""}]

\* what BeginTx, PrepareContext, ExecContext and Commit can fail with
TxErrors == {"context deadline exceeded", "driver: bad connection"}

NoRows == [s \in Students |-> ""]

\* the upserts of a committed transaction become visible: ON CONFLICT
\* (student_id, date) DO UPDATE replaces the row's status
Applied(committed, written) ==
    [s \in Students |-> IF written[s] # "" THEN written[s] ELSE committed[s]]

RollbackKeeps(committed, written) == Applied(committed, written)

\* the deferred tx.Rollback() of a call that returns before Commit succeeds
Rollback(committed, written) == committed

NoBulkRet == [ret |-> FALSE, map |-> NoRows, before |-> NoRows, err |-> "",
              failed |-> "", execs |-> 0, began |-> FALSE]

NewAttendanceStore ==
    /\ att = NoRows
    /\ bpc = "idle"
    /\ bmap = NoRows
    /\ btodo = {}
    /\ btx = NoRows
    /\ bret = NoBulkRet

\* ------------------------------------------------------------------ Init
NewTokenBucketLimiter(reqsPerWindow, w) ==
    /\ burst = reqsPerWindow
    /\ window = w
    /\ clients = [c \in Clients |-> Nil]

\* the state after main has built the limiter and called StartCleanup
StartedWith(reqsPerWindow, w, srv, rec, aud) ==
    /\ NewTokenBucketLimiter(reqsPerWindow, w)
    /\ serves = srv
    /\ record = rec
    /\ audit = aud
    /\ now = 0
    /\ heap = [b \in BucketIds |-> FreeBucket]
    /\ pc = [t \in Threads |-> "idle"]
    /\ ip = [t \in Threads |-> ""]
    /\ tb = [t \in Threads |-> Nil]
    /\ spc = "wait"
    /\ tickC = Nil
    /\ nextTick = window
    /\ sweepNow = 0
    /\ todo = {}
    /\ delKey = ""
    /\ ret = NoRet
    /\ hist = [c \in Clients |-> NoCall]
    /\ removed = [c \in Clients |-> "no"]
    /\ ref = [c \in Clients |-> [tokens |-> Cap, lastRefill |-> 0]]
    /\ expect = [t \in Threads |-> FALSE]

Started(reqsPerWindow, w, srv, rec) ==
    StartedWith(reqsPerWindow, w, srv, rec, FALSE)

\* two goroutines serving one client, 2 requests per window of 3 ticks
Init ==
    /\ Started(2, 3, [t \in Threads |-> {"c1"}], TRUE)
    /\ NewRedisStorage(NewRedisClient, [t \in Threads |-> {}])
    /\ NewApplication(TRUE)
    /\ NewAttendanceStore

\* one goroutine serving two clients, 1 request per window of 2 ticks; only
\* the returns are recorded
InitTwo ==
    /\ Started(1, 2, [t \in Threads |-> IF t = "t1" THEN Clients ELSE {}],
               FALSE)
    /\ NewRedisStorage(NewRedisClient, [t \in Threads |-> {}])
    /\ NewApplication(TRUE)
    /\ NewAttendanceStore

\* ----------------------------------------------------------------- clock
Tick ==
    /\ now < Horizon
    /\ now < nextTick
    /\ now' = now + 1
    /\ ret' = NoRet
    /\ UNCHANGED <<cacheVars, apiVars, bulkVars, config, clients, heap, callVars, sweepVars,
                   hist, removed, ref, expect>>

\* ----------------------------------------------------------------- Allow
\* getBucket: rl.clients.Load(ip); on a miss the new bucket is built
getBucket(t, c) ==
    /\ pc[t] = "idle"
    /\ c \in serves[t]
    /\ ip' = [ip EXCEPT ![t] = c]
    /\ IF clients[c] # Nil
       THEN /\ tb' = [tb EXCEPT ![t] = clients[c]]
            /\ pc' = [pc EXCEPT ![t] = "lock"]
            /\ heap' = heap
       ELSE /\ tb' = [tb EXCEPT ![t] = FreshId]
            /\ heap' = [heap EXCEPT ![FreshId] = NewBucket]
            /\ pc' = [pc EXCEPT ![t] = "store"]
    /\ ret' = NoRet
    /\ UNCHANGED <<cacheVars, apiVars, bulkVars, config, now, clients, sweepVars,
                   hist, removed, ref, expect>>

\* getBucket: actual, _ := rl.clients.LoadOrStore(ip, tb)
LoadOrStore(t) ==
    /\ pc[t] = "store"
    /\ LET c == ip[t]
           cl == IF clients[c] = Nil THEN [clients EXCEPT ![c] = tb[t]]
                                     ELSE clients
           tbs == [tb EXCEPT ![t] = cl[c]]
       IN /\ clients' = cl
          /\ tb' = tbs
          /\ heap' = Collect(heap, cl, tbs)
    /\ pc' = [pc EXCEPT ![t] = "lock"]
    /\ ret' = NoRet
    /\ UNCHANGED <<cacheVars, apiVars, bulkVars, config, now, ip, sweepVars,
                   hist, removed, ref, expect>>

\* Allow: tb.Lock(); now := time.Now(); refill; tb.lastRefill = now
Lock(t) ==
    /\ pc[t] = "lock"
    /\ Acquire(tb[t])
    /\ LET b == heap[tb[t]]
           r == ref[ip[t]]
           rtok == Refill(r.tokens, now - r.lastRefill)
       IN /\ heap' = [heap EXCEPT ![tb[t]] =
                        [b EXCEPT !.locked = TRUE,
                                  !.tokens = Refill(b.tokens, now - b.lastRefill),
                                  !.lastRefill = now,
                                  !.inst = b.inst /\ now = b.lastRefill]]
          /\ expect' = [expect EXCEPT ![t] = record /\ HasToken(rtok)]
          /\ ref' = IF record
                    THEN [ref EXCEPT ![ip[t]] =
                            [tokens |-> Debit(rtok), lastRefill |-> now]]
                    ELSE ref
    /\ pc' = [pc EXCEPT ![t] = "locked"]
    /\ ret' = NoRet
    /\ UNCHANGED <<cacheVars, apiVars, bulkVars, config, now, clients, ip, tb, sweepVars,
                   hist, removed>>

\* Allow: test, debit, return; the deferred tb.Unlock()
Allow(t) ==
    /\ pc[t] = "locked"
    /\ LET b == heap[tb[t]]
           c == ip[t]
           ok == HasToken(b.tokens)
           w == IF ok THEN 0 ELSE Wait(b.tokens)
           tbs == [tb EXCEPT ![t] = Nil]
           h == [heap EXCEPT ![tb[t]] =
                    [Unlock(b) EXCEPT
                              !.tokens = Debit(b.tokens),
                              !.calls = IF ~record THEN 0
                                        ELSE IF b.inst
                                        THEN Min(b.calls + 1, burst + 2)
                                        ELSE Min(b.calls + 1, 2),
                              !.adm = IF ~audit THEN @
                                      ELSE IF ok
                                      THEN [tokens |-> Debit(b.tokens),
                                            at |-> b.lastRefill,
                                            denied |-> 0]
                                      ELSE [@ EXCEPT !.denied =
                                                        Min(@ + 1, 2)]]]
       IN /\ heap' = Collect(h, clients, tbs)
          /\ tb' = tbs
          /\ ret' = [ip |-> c, admitted |-> ok, wait |-> w,
                     post |-> b.tokens, left |-> h[tb[t]].tokens,
                     at |-> b.lastRefill, k |-> h[tb[t]].calls,
                     inst |-> b.inst,
                     gap |-> IF hist[c].at < 0 THEN -1
                             ELSE b.lastRefill - hist[c].at,
                     prevWait |-> hist[c].wait,
                     expected |-> expect[t],
                     swept |-> removed[c],
                     once |-> audit /\ HasToken(Refill(b.adm.tokens,
                                                 b.lastRefill - b.adm.at)),
                     denials |-> b.adm.denied,
                     onceFrom |-> b.adm]
          /\ hist' = IF record /\ b.lastRefill >= hist[c].at
                     THEN [hist EXCEPT ![c] =
                             [at |-> b.lastRefill,
                              wait |-> IF ok THEN -1 ELSE w]]
                     ELSE hist
          /\ removed' = [removed EXCEPT ![c] = "no"]
    /\ pc' = [pc EXCEPT ![t] = "idle"]
    /\ ip' = [ip EXCEPT ![t] = ""]
    /\ expect' = [expect EXCEPT ![t] = FALSE]
    /\ UNCHANGED <<cacheVars, apiVars, bulkVars, config, now, clients, sweepVars, ref>>

\* --------------------------------------------------------------- cleanup
\* the ticker of StartCleanup sends the current time every rl.window; a
\* tick is dropped when the channel still holds the previous one
TickerFire ==
    /\ now = nextTick
    /\ tickC' = IF tickC = Nil THEN now ELSE tickC
    /\ nextTick' = nextTick + window
    /\ ret' = NoRet
    /\ UNCHANGED <<cacheVars, apiVars, bulkVars, config, now, clients, heap, callVars, spc, sweepNow, todo,
                   delKey, hist, removed, ref, expect>>

\* for now := range ticker.C { rl.clients.Range(...
SweepStart ==
    /\ spc = "wait"
    /\ tickC # Nil
    /\ sweepNow' = tickC
    /\ tickC' = Nil
    /\ todo' = {c \in Clients : clients[c] # Nil}
    /\ spc' = "range"
    /\ ret' = NoRet
    /\ UNCHANGED <<cacheVars, apiVars, bulkVars, config, now, clients, heap, callVars, nextTick, delKey,
                   hist, removed, ref, expect>>

\* the Range callback up to tb.Unlock(): lock, compare, unlock.  Keys stored
\* while Range runs have lastRefill >= sweepNow, so visiting them is a no-op.
SweepCheck(c) ==
    /\ spc = "range"
    /\ c \in todo
    /\ Acquire(clients[c])
    /\ todo' = todo \ {c}
    /\ IF Expired(sweepNow, heap[clients[c]].lastRefill)
       THEN spc' = "delete" /\ delKey' = c
       ELSE spc' = spc /\ delKey' = delKey
    /\ ret' = NoRet
    /\ UNCHANGED <<cacheVars, apiVars, bulkVars, config, now, clients, heap, callVars, tickC, nextTick,
                   sweepNow, hist, removed, ref, expect>>

\* if expired { rl.clients.Delete(key) }
SweepDelete ==
    /\ spc = "delete"
    /\ LET cl == [clients EXCEPT ![delKey] = Nil]
       IN /\ clients' = cl
          /\ heap' = Collect(heap, cl, tb)
    /\ removed' = IF ~record THEN removed
                   ELSE IF \E t \in Threads : pc[t] # "idle" /\ ip[t] = delKey
                   THEN [removed EXCEPT ![delKey] = "busy"]
                   ELSE [removed EXCEPT ![delKey] = "quiet"]
    /\ spc' = "range"
    /\ delKey' = ""
    /\ ret' = NoRet
    /\ UNCHANGED <<cacheVars, apiVars, bulkVars, config, now, callVars, tickC, nextTick, sweepNow, todo,
                   hist, ref, expect>>

\* Range returns; the goroutine waits for the next tick
SweepDone ==
    /\ spc = "range"
    /\ todo = {}
    /\ spc' = "wait"
    /\ sweepNow' = 0
    /\ ret' = NoRet
    /\ UNCHANGED <<cacheVars, apiVars, bulkVars, config, now, clients, heap, callVars, tickC, nextTick,
                   todo, delKey, hist, removed, ref, expect>>

Next ==
    \/ Tick
    \/ \E t \in Threads, c \in Clients : getBucket(t, c)
    \/ \E t \in Threads : LoadOrStore(t)
    \/ \E t \in Threads : Lock(t)
    \/ \E t \in Threads : Allow(t)
    \/ TickerFire
    \/ SweepStart
    \/ \E c \in Clients : SweepCheck(c)
    \/ SweepDelete
    \/ SweepDone

Spec == Init /\ [][Next]_vars

SpecTwo == InitTwo /\ [][Next]_vars

\* one goroutine serving one client, 1 request per window of 2 ticks, every
\* history variable kept
InitOne ==
    /\ StartedWith(1, 2, [t \in Threads |-> IF t = "t1" THEN {"c1"} ELSE {}],
                   TRUE, TRUE)
    /\ NewRedisStorage(NewRedisClient, [t \in Threads |-> {}])
    /\ NewApplication(TRUE)
    /\ NewAttendanceStore

SpecOne == InitOne /\ [][Next]_vars

\* two goroutines serving one client, 1 request per window of 1 tick
InitLive ==
    /\ Started(1, 1, [t \in Threads |-> {"c1"}], FALSE)
    /\ NewRedisStorage(NewRedisClient, [t \in Threads |-> {}])
    /\ NewApplication(TRUE)
    /\ NewAttendanceStore

\* the Go scheduler runs every runnable goroutine, time passes and the ticker
\* fires; sync.Mutex hands the lock to a goroutine that keeps waiting for it
\* (starvation mode), hence the strong fairness of the two locking steps.
\* No fairness on getBucket: requests arrive as clients please.
Fairness ==
    /\ WF_vars(Tick)
    /\ WF_vars(TickerFire)
    /\ \A t \in Threads :
          /\ WF_vars(LoadOrStore(t))
          /\ SF_vars(Lock(t))
          /\ WF_vars(Allow(t))
    /\ WF_vars(SweepStart)
    /\ \A c \in Clients : SF_vars(SweepCheck(c))
    /\ WF_vars(SweepDelete)
    /\ WF_vars(SweepDone)

SpecLive == InitLive /\ [][Next]_vars /\ Fairness

\* ---------------------------------------------------- list cache: steps
callLocals == <<lpc, lpq, lkey, llist, lobs>>

\* the goroutine returns from GetListWithCache (or panics in it); every
\* path out has called rdb.GetList once
Return(t, r) ==
    /\ lret' = [r EXCEPT !.t = t, !.pq = lpq[t], !.key = lkey[t],
                         !.reads = 1]
    /\ lpc' = [lpc EXCEPT ![t] = "idle"]
    /\ lpq' = [lpq EXCEPT ![t] = NoQuery]
    /\ lkey' = [lkey EXCEPT ![t] = ""]
    /\ llist' = [llist EXCEPT ![t] = NoFetch]
    /\ lobs' = [lobs EXCEPT ![t] = NoObs]

\* getStudentsHandler up to key := buildCacheKey(prefix, params)
getStudentsHandler(t, q, iter) ==
    /\ lpc[t] = "idle"
    /\ q \in asks[t]
    /\ lpq' = [lpq EXCEPT ![t] = q]
    /\ lkey' = [lkey EXCEPT ![t] = buildCacheKey(ListPrefix, Params(q), iter)]
    /\ lpc' = [lpc EXCEPT ![t] = "read"]
    /\ lret' = NoListRet
    /\ UNCHANGED <<limiterVars, apiVars, bulkVars, asks, rnow, table, rdb, llist, lobs>>

\* cached, err := rdb.GetList(ctx, key), and the return on a hit; up tells
\* whether redis answers.  On a nil client e.rdb.Get dereferences nil: the
\* goroutine panics and the request ends there.
CacheRead(t, up) ==
    /\ lpc[t] = "read"
    /\ LET k == lkey[t]
           cached == GetList(k, up)
           due == /\ up
                  /\ rdb[k].live
                  /\ rnow - rdb[k].wat < execListTTL
       IN IF rdb = NilClient
          THEN Return(t, [NoListRet EXCEPT !.panicked = TRUE])
          ELSE IF IsHit(cached)
          THEN Return(t, [NoListRet EXCEPT !.list = cached.list,
                                           !.cached = cached,
                                           !.due = due,
                                           !.age = rnow - rdb[k].fat,
                                           !.was = rdb[k].src])
          ELSE /\ lobs' = [lobs EXCEPT ![t] =
                             [cached |-> cached, due |-> due]]
               /\ lpc' = [lpc EXCEPT ![t] = "fetch"]
               /\ lret' = NoListRet
               /\ UNCHANGED <<lpq, lkey, llist>>
    /\ UNCHANGED <<limiterVars, apiVars, bulkVars, asks, rnow, table, rdb>>

\* list, err := fetcher(ctx), and the return when it fails; e is the error
\* of the store's query
Fetch(t, e) ==
    /\ lpc[t] = "fetch"
    /\ IF e # NoErr
       THEN LET r == ReturnFetchErr(e)
            IN Return(t, [NoListRet EXCEPT !.list = r.list,
                                           !.err = r.err,
                                           !.cached = lobs[t].cached,
                                           !.due = lobs[t].due,
                                           !.fetched = TRUE,
                                           !.ferr = e])
       ELSE /\ llist' = [llist EXCEPT ![t] =
                           [list |-> GetAll(lpq[t], table), at |-> rnow]]
            /\ lpc' = [lpc EXCEPT ![t] = "set"]
            /\ lret' = NoListRet
            /\ UNCHANGED <<lpq, lkey, lobs>>
    /\ UNCHANGED <<limiterVars, apiVars, bulkVars, asks, rnow, table, rdb>>

\* _ = rdb.SetList(ctx, key, list); return list, nil.  SetList marshals the
\* list and calls SetEx with the TTL; up tells whether redis answers
CacheWrite(t, up) ==
    /\ lpc[t] = "set"
    /\ LET k == lkey[t]
           l == llist[t].list
           r == ReturnFetched(l, IF up THEN NoErr ELSE RedisErr)
       IN /\ rdb' = IF up
                    THEN [rdb EXCEPT ![k] =
                            [live |-> TRUE, data |-> Marshal(l),
                             exp |-> rnow + SetExTTL,
                             fat |-> llist[t].at, wat |-> rnow,
                             src |-> l]]
                    ELSE rdb
          /\ Return(t, [NoListRet EXCEPT !.list = r.list,
                                         !.err = r.err,
                                         !.cached = lobs[t].cached,
                                         !.due = lobs[t].due,
                                         !.fetched = TRUE,
                                         !.flist = l,
                                         !.sets = 1,
                                         !.wrote = up])
    /\ UNCHANGED <<limiterVars, apiVars, bulkVars, asks, rnow, table>>

\* a handler that writes the table: it does not touch the cache
StoreWrite(tbl) ==
    /\ table' = tbl
    /\ lret' = NoListRet
    /\ UNCHANGED <<limiterVars, apiVars, bulkVars, asks, rnow, rdb, callLocals>>

\* createExecHandler: app.store.Execs.Create
createExecHandler(i) ==
    /\ table[i] = 0
    /\ StoreWrite([table EXCEPT ![i] = 1])

\* updateExecHandler: app.store.Execs.Update changes a column of the row
updateExecHandler(i) ==
    /\ table[i] # 0
    /\ StoreWrite([table EXCEPT ![i] = 3 - table[i]])

deleteExecHandlerInvalidating(i) ==
    /\ table[i] # 0
    /\ table' = [table EXCEPT ![i] = 0]
    /\ rdb' = [k \in CacheKeys |-> NoEntry]
    /\ lret' = NoListRet
    /\ UNCHANGED <<limiterVars, apiVars, bulkVars, asks, rnow, callLocals>>

\* deleteExecHandler: app.store.Execs.Delete
deleteExecHandler(i) ==
    /\ table[i] # 0
    /\ StoreWrite([table EXCEPT ![i] = 0])

\* time passes (and with it the keys expire, see Holds)
CacheTick ==
    /\ rnow < MaxCacheTicks
    /\ rnow' = rnow + 1
    /\ lret' = NoListRet
    /\ UNCHANGED <<limiterVars, apiVars, bulkVars, asks, table, rdb, callLocals>>

NextCache ==
    \/ \E t \in Threads, q \in Queries :
          \E iter \in RangeOrders(Params(q)) : getStudentsHandler(t, q, iter)
    \/ \E t \in Threads, up \in BOOLEAN : CacheRead(t, up)
    \/ \E t \in Threads, e \in FetchErrors \cup {NoErr} : Fetch(t, e)
    \/ \E t \in Threads, up \in BOOLEAN : CacheWrite(t, up)
    \/ \E i \in Ids : createExecHandler(i)
    \/ \E i \in Ids : updateExecHandler(i)
    \/ \E i \in Ids : deleteExecHandler(i)
    \/ CacheTick

\* the limiter idle; one goroutine serves list requests with either query
\* while the table is written
InitCache ==
    /\ Started(1, 1, [t \in Threads |-> {}], FALSE)
    /\ NewRedisStorage(NewRedisClient,
                       [t \in Threads |-> IF t = "t1" THEN Queries ELSE {}])
    /\ NewApplication(TRUE)
    /\ NewAttendanceStore

SpecCache == InitCache /\ [][NextCache]_vars

\* the limiter idle; two goroutines serve list requests with the same query
\* while the table is written
InitStampede ==
    /\ Started(1, 1, [t \in Threads |-> {}], FALSE)
    /\ NewRedisStorage(NewRedisClient,
                       [t \in Threads |-> {q \in Queries : q.offset = 0}])
    /\ NewApplication(TRUE)
    /\ NewAttendanceStore

SpecStampede == InitStampede /\ [][NextCache]_vars

\* the list requests and the table writes when the cache is disabled: the
\* steps of GetListWithCache after the cache read are never reached
NextNoCache ==
    \/ \E t \in Threads, q \in Queries :
          \E iter \in RangeOrders(Params(q)) : getStudentsHandler(t, q, iter)
    \/ \E t \in Threads, up \in BOOLEAN : CacheRead(t, up)
    \/ \E i \in Ids : createExecHandler(i)
    \/ \E i \in Ids : updateExecHandler(i)
    \/ \E i \in Ids : deleteExecHandler(i)
    \/ CacheTick

\* redisCfg.enabled = false: the limiter idle, both goroutines serve list
\* requests
InitNoCache ==
    /\ Started(1, 1, [t \in Threads |-> {}], FALSE)
    /\ NewRedisStorage(NilClient, [t \in Threads |-> Queries])
    /\ NewApplication(TRUE)
    /\ NewAttendanceStore

SpecNoCache == InitNoCache /\ [][NextNoCache]_vars

\* ------------------------------------------------ request pipeline: steps
Busy == rq.stage \notin {"idle", "done"}

Respond(r, code) == [r EXCEPT !.stage = "done", !.status = code]

\* a client sends a request: it reaches the first middleware of mount
Arrive(req, addr, hdr) ==
    /\ ~Busy
    /\ hdr = "held" => held # NoToken
    /\ rq' = [NoRequest EXCEPT !.stage = "limiter", !.route = req.route,
                               !.arg = req.arg, !.addr = addr, !.hdr = hdr,
                               !.tok = IF hdr = "held" THEN held
                                       ELSE IF hdr = "forged" THEN ForgedToken
                                       ELSE NoToken]
    /\ UNCHANGED <<limiterVars, cacheVars, bulkVars, limiterOn, users, held>>

\* RateLimiterMiddleware; res is what app.ratelimiter.Allow returns
RateLimiterMiddleware(res) ==
    /\ rq.stage = "limiter"
    /\ LET asked == IF limiterOn
                    THEN [rq EXCEPT !.allowCalls = @ + 1,
                                    !.allowKey = rq.addr,
                                    !.allowed = res.ok,
                                    !.wait = res.wait,
                                    !.trace = Append(@, "allow")]
                    ELSE rq
       IN rq' = IF PassesLimiter(limiterOn, res.ok)
                THEN [asked EXCEPT !.nextCalls = @ + 1, !.stage = "router",
                                   !.trace = Append(@, "next")]
                ELSE [Respond(asked, 429) EXCEPT !.sent = res.wait]
    /\ UNCHANGED <<limiterVars, cacheVars, bulkVars, limiterOn, users, held>>

\* the router of mount picks the route's chain
Route ==
    /\ rq.stage = "router"
    /\ rq' = [rq EXCEPT !.stage = IF Protected(rq.route) THEN "auth"
                                  ELSE "handler"]
    /\ UNCHANGED <<limiterVars, cacheVars, bulkVars, limiterOn, users, held>>

AuthTokenMiddleware ==
    /\ rq.stage = "auth"
    /\ LET a == AuthToken(rq.hdr, rq.tok)
           seen == [rq EXCEPT !.trace = Append(@, "auth"),
                              !.existed = Exists(TableOf(rq.tok.role),
                                                 rq.tok.sub.v)]
       IN rq' = IF a.ok
                THEN [seen EXCEPT !.accepted = TRUE, !.user = a.user,
                                  !.stage = "role"]
                ELSE Respond(seen, 401)
    /\ UNCHANGED <<limiterVars, cacheVars, bulkVars, limiterOn, users, held>>

requireRole ==
    /\ rq.stage = "role"
    /\ LET code == RequireRole(rq.user, RoleSet(rq.route))
           seen == [rq EXCEPT !.trace = Append(@, "role")]
       IN rq' = IF code = 0 THEN [seen EXCEPT !.stage = "handler"]
                ELSE Respond(seen, code)
    /\ UNCHANGED <<limiterVars, cacheVars, bulkVars, limiterOn, users, held>>

AtHandler(routes) == rq.stage = "handler" /\ rq.route \in routes

Ran(r) == [r EXCEPT !.ran = @ + 1, !.trace = Append(@, "handler")]

FreeIds(tbl) == {i \in DOMAIN users[tbl] : users[tbl][i] = ""}

\* registerExecHandler: Execs.Create, then createAndRespondJWT
registerExecHandler ==
    /\ AtHandler({"execs.register"})
    /\ IF FreeIds("execs") = {}
       THEN /\ rq' = Respond(Ran(rq), 400)
            /\ UNCHANGED <<users, held>>
       ELSE \E id \in FreeIds("execs") :
            /\ \A other \in FreeIds("execs") : id <= other
            /\ users' = [users EXCEPT !.execs[id] = rq.arg.role]
            /\ held' = GenerateToken(RegisterClaims(id, rq.arg.role),
                                     "register")
            /\ rq' = [Respond(Ran(rq), 201) EXCEPT !.created = id]
    /\ UNCHANGED <<limiterVars, cacheVars, bulkVars, limiterOn>>

\* loginExecHandler, loginTeacherHandler, loginStudentHandler through
\* loginHandler; checks is the outcome of Password.Check
loginHandler(checks) ==
    /\ AtHandler({"execs.login", "teachers.login", "students.login"})
    /\ LET tbl == IF rq.route = "execs.login" THEN "execs"
                  ELSE IF rq.route = "teachers.login" THEN "teachers"
                  ELSE "students"
           id == rq.arg.id
           role == IF tbl = "execs" THEN users.execs[id]
                   ELSE IF tbl = "teachers" THEN "teacher" ELSE "student"
       IN IF Exists(tbl, id) /\ checks
          THEN /\ held' = GenerateToken(LoginClaims(id, role), "login")
               /\ rq' = Respond(Ran(rq), 200)
          ELSE /\ rq' = Respond(Ran(rq), 401)
               /\ UNCHANGED held
    /\ UNCHANGED <<limiterVars, cacheVars, bulkVars, limiterOn, users>>

getExecsHandler ==
    /\ AtHandler({"execs.get"})
    /\ rq' = Respond(Ran(rq), 200)
    /\ UNCHANGED <<limiterVars, cacheVars, bulkVars, limiterOn, users, held>>

\* registerTeacherHandler and registerStudentHandler: Create, then
\* createAndRespondJWT for the new account
registerPersonHandler(tbl, role) ==
    /\ IF FreeIds(tbl) = {}
       THEN /\ rq' = Respond(Ran(rq), 400)
            /\ UNCHANGED <<users, held>>
       ELSE \E id \in FreeIds(tbl) :
            /\ \A other \in FreeIds(tbl) : id <= other
            /\ users' = [users EXCEPT ![tbl][id] = role]
            /\ held' = GenerateToken(RegisterClaims(id, role), "register")
            /\ rq' = [Respond(Ran(rq), 201) EXCEPT !.created = id]
    /\ UNCHANGED <<limiterVars, cacheVars, bulkVars, limiterOn>>

registerTeacherHandler ==
    /\ AtHandler({"teachers.register"})
    /\ registerPersonHandler("teachers", "teacher")

registerStudentHandler ==
    /\ AtHandler({"students.register"})
    /\ registerPersonHandler("students", "student")

\* teachersContextMiddleware, then deleteTeacherHandler
deleteTeacherHandler ==
    /\ AtHandler({"teachers.delete"})
    /\ IF Exists("teachers", rq.arg.id)
       THEN /\ users' = [users EXCEPT !.teachers[rq.arg.id] = ""]
            /\ rq' = Respond(Ran(rq), 204)
       ELSE /\ rq' = Respond(Ran(rq), 404)
            /\ UNCHANGED users
    /\ UNCHANGED <<limiterVars, cacheVars, bulkVars, limiterOn, held>>

Addrs == {"10.0.0.1:5000", "10.0.0.2:5000"}
Headers == {"none", "malformed", "held", "forged"}

NextApi ==
    \/ \E req \in Requests, addr \in Addrs, hdr \in Headers :
           Arrive(req, addr, hdr)
    \/ \E res \in AllowResults : RateLimiterMiddleware(res)
    \/ Route
    \/ AuthTokenMiddleware
    \/ requireRole
    \/ registerExecHandler
    \/ \E checks \in BOOLEAN : loginHandler(checks)
    \/ getExecsHandler
    \/ registerTeacherHandler
    \/ registerStudentHandler
    \/ deleteTeacherHandler

\* the API with the limiter enabled or disabled by configuration
InitApi ==
    /\ Started(2, 3, [t \in Threads |-> {}], FALSE)
    /\ NewRedisStorage(NewRedisClient, [t \in Threads |-> {}])
    /\ \E enabled \in BOOLEAN : NewApplication(enabled)
    /\ NewAttendanceStore

SpecApi == InitApi /\ [][NextApi]_vars

\* ---------------------------------------------------- attendance: steps
\* BulkMark returns from step `at`: the call's history is recorded
BulkReturn(err, at, began) ==
    /\ bret' = [ret |-> TRUE, map |-> bmap, before |-> bret.before,
                err |-> err, failed |-> at,
                execs |-> Cardinality({s \in Students : btx[s] # ""}),
                began |-> began]
    /\ bpc' = "idle"
    /\ bmap' = NoRows
    /\ btodo' = {}
    /\ btx' = NoRows

\* AttendanceStore.Mark: one upsert outside any transaction of BulkMark
Mark(sid, status) ==
    /\ bpc = "idle"
    /\ att' = [att EXCEPT ![sid] = status]
    /\ bret' = NoBulkRet
    /\ UNCHANGED <<limiterVars, cacheVars, apiVars, bpc, bmap, btodo, btx>>

\* BulkMark is called: len(statuses) == 0 returns nil at once
BulkMark(statuses) ==
    /\ bpc = "idle"
    /\ IF statuses = NoRows
       THEN /\ bret' = [NoBulkRet EXCEPT !.ret = TRUE, !.before = att]
            /\ UNCHANGED <<bpc, bmap, btodo>>
       ELSE /\ bret' = [NoBulkRet EXCEPT !.before = att]
            /\ bpc' = "begin"
            /\ bmap' = statuses
            /\ btodo' = {s \in Students : statuses[s] # ""}
    /\ UNCHANGED <<limiterVars, cacheVars, apiVars, att, btx>>

\* s.db.BeginTx
BeginTx(err) ==
    /\ bpc = "begin"
    /\ IF err # ""
       THEN BulkReturn(err, "begin", FALSE)
       ELSE /\ bpc' = "prepare"
            /\ UNCHANGED <<bmap, btodo, btx, bret>>
    /\ UNCHANGED <<limiterVars, cacheVars, apiVars, att>>

\* tx.PrepareContext
PrepareContext(err) ==
    /\ bpc = "prepare"
    /\ IF err # ""
       THEN /\ BulkReturn(err, "prepare", TRUE)
            /\ att' = Rollback(att, btx)
       ELSE /\ bpc' = "exec"
            /\ UNCHANGED <<att, bmap, btodo, btx, bret>>
    /\ UNCHANGED <<limiterVars, cacheVars, apiVars>>

\* one iteration of for sid, status := range statuses (any key order)
ExecContext(sid, err) ==
    /\ bpc = "exec"
    /\ sid \in btodo
    /\ IF err # ""
       THEN /\ BulkReturn(err, "exec", TRUE)
            /\ att' = Rollback(att, btx)
       ELSE /\ btx' = [btx EXCEPT ![sid] = bmap[sid]]
            /\ btodo' = btodo \ {sid}
            /\ bpc' = IF btodo = {sid} THEN "commit" ELSE "exec"
            /\ UNCHANGED <<att, bmap, bret>>
    /\ UNCHANGED <<limiterVars, cacheVars, apiVars>>

\* tx.Commit, then return
Commit(err) ==
    /\ bpc = "commit"
    /\ IF err # ""
       THEN /\ BulkReturn(err, "commit", TRUE)
            /\ att' = Rollback(att, btx)
       ELSE /\ BulkReturn("", "", TRUE)
            /\ att' = Applied(att, btx)
    /\ UNCHANGED <<limiterVars, cacheVars, apiVars>>

NextBulk ==
    \/ \E sid \in Students, status \in Statuses : Mark(sid, status)
    \/ \E statuses \in StatusMaps : BulkMark(statuses)
    \/ \E err \in TxErrors \cup {""} : BeginTx(err)
    \/ \E err \in TxErrors \cup {""} : PrepareContext(err)
    \/ \E sid \in Students, err \in TxErrors \cup {""} : ExecContext(sid, err)
    \/ \E err \in TxErrors \cup {""} : Commit(err)

InitBulk ==
    /\ Started(2, 3, [t \in Threads |-> {}], FALSE)
    /\ NewRedisStorage(NewRedisClient, [t \in Threads |-> {}])
    /\ NewApplication(FALSE)
    /\ NewAttendanceStore

SpecBulk == InitBulk /\ [][NextBulk]_vars

TypeOK ==
    /\ now \in 0..Horizon
    /\ \A c \in Clients : clients[c] \in BucketIds \cup {Nil}
    /\ \A t \in Threads : pc[t] \in {"idle", "store", "lock", "locked"}

\* ================================================================ claims
Returned == ret.ip # ""

\* C1: every bucket holds between 0 and burst tokens in every reachable
\* state: right after the refill inside Allow, and after Allow returns.
C1_TokensInRange ==
    /\ \A b \in BucketIds : heap[b].tokens >= 0 /\ heap[b].tokens <= Cap
    /\ Returned => ret.post >= 0 /\ ret.post <= Cap
                   /\ ret.left >= 0 /\ ret.left <= Cap

\* a call found the bucket refilled to its capacity after earlier debits
C1_Witness ==
    /\ Returned /\ ret.k > 1 /\ ~ret.inst /\ ret.post = Cap

\* C2: the k-th call made on a bucket at the very instant the bucket was
\* created returns (true, 0) for k <= burst and is denied for k = burst + 1.
C2_FreshBurst ==
    (Returned /\ ret.inst /\ ret.k <= burst + 1) =>
        /\ ret.admitted <=> ret.k <= burst
        /\ ret.admitted => ret.wait = 0

C2_Witness ==
    /\ Returned /\ ret.inst /\ ret.k = burst + 1 /\ ~ret.admitted

\* C3: Allow returns (true, 0) exactly when the refilled count
\* min(burst, tokens + elapsed * rate) is at least one token, and then leaves
\* that count minus one; from the refill to the return no other goroutine
\* changes the bucket.
C3_AdmitIffToken ==
    [][\A t \in Threads :
        /\ (pc[t] = "lock" /\ pc'[t] = "locked") =>
              LET b == heap[tb[t]]
                  sum == b.tokens + (now - b.lastRefill) * burst
              IN heap'[tb[t]].tokens = (IF sum > Cap THEN Cap ELSE sum)
        /\ (pc[t] = "locked" /\ pc'[t] = "locked") =>
              heap'[tb[t]] = heap[tb[t]]
        /\ (pc[t] = "locked" /\ pc'[t] = "idle") =>
              /\ ret'.post = heap[tb[t]].tokens
              /\ ret'.admitted <=> ret'.post >= One
              /\ ret'.admitted => ret'.wait = 0 /\ ret'.left = ret'.post - One
              /\ Referenced(clients', tb', tb[t]) =>
                    heap'[tb[t]].tokens = ret'.left]_vars

\* an admitted call that ran while the other goroutine waited for the mutex
C3_Witness ==
    /\ Returned /\ ret.admitted /\ ret.left = ret.post - One
    /\ \E t \in Threads : pc[t] = "lock" /\ clients[ret.ip] = tb[t]

\* C4: a denied call leaves the refilled token count as it is and changes
\* neither the map nor any other bucket.
C4_DenyNoDebit ==
    [][\A t \in Threads :
        (pc[t] = "locked" /\ pc'[t] = "idle" /\ ~ret'.admitted) =>
            /\ ret'.left = heap[tb[t]].tokens
            /\ Referenced(clients', tb', tb[t]) =>
                  heap'[tb[t]].tokens = heap[tb[t]].tokens
            /\ clients' = clients
            /\ \A b \in BucketIds \ {tb[t]} : heap'[b] = heap[b]]_vars

\* a denial while another client owns a bucket
C4_Witness ==
    /\ Returned /\ ~ret.admitted
    /\ \E c \in Clients \ {ret.ip} : clients[c] # Nil

C6_RetryAfterExact ==
    (Returned /\ ret.prevWait >= 0 /\ ret.gap >= 0) =>
        /\ ret.gap = ret.prevWait => ret.admitted
        /\ ret.gap < ret.prevWait => ~ret.admitted

\* C7: a call made t after the client's previous call, with t * rate >= 1,
\* is admitted.
C7_RefillAdmits ==
    (Returned /\ ret.gap >= 0 /\ ret.gap * burst >= One) => ret.admitted

\* the previous call had emptied the bucket
C7_Witness ==
    /\ Returned /\ ret.admitted /\ ret.gap * burst >= One
    /\ ret.post = ret.gap * burst

\* C8: the sweep deletes a client's bucket only if the client made no Allow
\* call during the 2 * window before the deletion.
C8_DeleteOnlyIdle ==
    [][(spc = "delete" /\ spc' = "range") =>
         \/ hist[delKey].at < 0
         \/ now - hist[delKey].at > 2 * window]_vars

\* C9: the first call to return after a client's bucket was swept (no call
\* of the client being under way at the deletion) runs on a newly created
\* full bucket, is admitted and leaves burst - 1 tokens.
C9_FreshAfterSweep ==
    (Returned /\ ret.swept = "quiet") =>
        /\ ret.k = 1
        /\ ret.post = Cap
        /\ ret.admitted /\ ret.wait = 0
        /\ ret.left = Cap - One

C9_Witness ==
    /\ Returned /\ ret.swept = "quiet" /\ ret.admitted

\* C10: every Allow call returns the outcome it has in a limiter whose
\* buckets are never swept.
C10_SweepInvisible ==
    Returned => ret.admitted = ret.expected

\* C11: under any interleaving, the sweep included, all the Allow calls
\* under way for one client operate on one and the same bucket (the first
\* half of linearizability: one bucket orders them by its lock).
C11_OneBucket ==
    \A t1, t2 \in Threads :
        (/\ pc[t1] \in {"lock", "locked"}
         /\ pc[t2] \in {"lock", "locked"}
         /\ ip[t1] = ip[t2]) => tb[t1] = tb[t2]

\* ------------------------------------------------------------ list cache
ListReturned == lret.t # ""

\* C12 (as stated): when the cache read returns a non-empty list fetch is
\* never called; on a miss fetch is called once and one SetList is attempted
\* afterward.
C12_Original ==
    ListReturned =>
        /\ (lret.cached.err = NoErr /\ Len(lret.cached.list.elems) > 0)
              => ~lret.fetched
        /\ lret.cached.list.nil => (lret.fetched /\ lret.sets = 1)

\* C12 (amended): when the cache read returns a non-empty list neither fetch
\* nor SetList is called; on a miss fetch is called once, and afterward one
\* SetList is attempted if fetch succeeded and none if fetch failed.
C12_FetchOnceSetOnSuccess ==
    ListReturned =>
        /\ (lret.cached.err = NoErr /\ Len(lret.cached.list.elems) > 0)
              => (~lret.fetched /\ lret.sets = 0)
        /\ lret.cached.list.nil =>
              /\ lret.fetched
              /\ lret.sets = IF lret.ferr = NoErr THEN 1 ELSE 0

C12_Witness ==
    /\ ListReturned /\ lret.cached = NoRead
    /\ lret.fetched /\ lret.ferr # NoErr /\ lret.sets = 0

\* C13: when the cache read, the cache write or both fail, the call returns
\* exactly the list fetch produced, with a nil error.
C13_CacheErrorsSwallowed ==
    (/\ ListReturned /\ lret.sets = 1
     /\ (lret.cached.err # NoErr \/ ~lret.wrote))
        => (lret.list = lret.flist /\ lret.err = NoErr)

C13_Witness ==
    /\ ListReturned /\ lret.sets = 1
    /\ lret.cached.err # NoErr /\ ~lret.wrote
    /\ lret.list = lret.flist /\ lret.list.elems # <<>>

\* C14: the call returns a non-nil error exactly when fetch was called and
\* failed; the error is then the fetch error itself and the list is nil.
C14_ErrorIffFetchError ==
    ListReturned =>
        /\ lret.err # NoErr <=> (lret.fetched /\ lret.ferr # NoErr)
        /\ lret.err # NoErr => (lret.err = lret.ferr /\ lret.list = NilList)

C14_Witness ==
    /\ ListReturned /\ lret.err \in FetchErrors
    /\ lret.cached.err # NoErr

\* C15 (as stated): a cache read that succeeds with an empty list is not
\* returned; fetch is called instead.
C15_Original ==
    (/\ ListReturned /\ lret.cached.err = NoErr
     /\ Len(lret.cached.list.elems) = 0) => lret.fetched

\* C15 (amended): a cache read that succeeds is a miss exactly when it
\* yields nil (no entry under the key): then fetch is called.  Any non-nil
\* list, the empty one included, is returned as it was read, without fetch.
C15_NilIsMiss ==
    (ListReturned /\ lret.cached.err = NoErr) =>
        /\ lret.cached.list.nil <=> lret.fetched
        /\ ~lret.cached.list.nil =>
              (lret.list = lret.cached.list /\ lret.err = NoErr)

C15_Witness ==
    /\ ListReturned /\ lret.cached = [list |-> Slice(<<>>), err |-> NoErr]
    /\ ~lret.fetched /\ lret.list = Slice(<<>>)

\* C16: a list returned on a cache hit was returned by the store to a fetch
\* made at most TTL before the hit.
C16_HitWithinTTL ==
    (ListReturned /\ ~lret.fetched) => lret.age <= execListTTL

\* C17: a call that finds the cache empty and healthy calls fetch once and
\* stores the fetched list under the derived key; a later call for the same
\* key that reads the cache less than TTL after that write returns the
\* stored list without calling fetch.
C17_SecondCallHits ==
    /\ (/\ ListReturned /\ lret.cached = NoRead /\ lret.ferr = NoErr
        /\ (lret.sets = 1 => lret.wrote))
          => /\ lret.fetched /\ lret.sets = 1
             /\ lret.list = lret.flist
             /\ Holds(lret.key)
             /\ rdb[lret.key].data = Marshal(lret.flist)
    /\ (ListReturned /\ lret.due)
          => (~lret.fetched /\ lret.list = lret.was /\ lret.err = NoErr)

C17_Witness ==
    /\ ListReturned /\ lret.due /\ ~lret.fetched
    /\ lret.list = lret.was /\ lret.list.elems # <<>>
    /\ lret.key = "students:list:limit=10&offset=0&order=asc&sort=id"

\* C18: whatever the order in which the names are visited, the key is the
\* prefix, ":" and the name=value pairs in lexicographic order of the names,
\* joined by "&".
C18_KeyIsSorted ==
    \A t \in Threads :
        lpc[t] # "idle" =>
            lkey[t] = ListPrefix \o ":"
                        \o "limit=" \o ToString(lpq[t].limit)
                        \o "&offset=" \o ToString(lpq[t].offset)
                        \o "&order=" \o lpq[t].order
                        \o "&sort=" \o lpq[t].sortBy

C18_Witness ==
    \E t \in Threads :
        /\ lpc[t] = "read"
        /\ lkey[t] = "students:list:limit=10&offset=1&order=asc&sort=id"

\* C19: two calls that missed on the same key and are both about to
\* populate it carry equal lists.
C19_EqualPopulates ==
    \A t1, t2 \in Threads :
        (/\ lpc[t1] = "set" /\ lpc[t2] = "set"
         /\ lkey[t1] = lkey[t2]
         /\ lobs[t1].cached = NoRead /\ lobs[t2].cached = NoRead)
            => llist[t1].list = llist[t2].list

\* C20: a write to the table leaves every cache entry as it is; an entry is
\* replaced only by the populate write of a call that missed.
C20_WritesLeaveCache ==
    [][/\ table' # table => (rdb' = rdb /\ rnow' = rnow)
       /\ rdb' # rdb =>
            \E t \in Threads :
                /\ lpc[t] = "set" /\ lpc'[t] = "idle"
                /\ lobs[t].cached.list.nil
                /\ \A k \in CacheKeys \ {lkey[t]} : rdb'[k] = rdb[k]]_vars

\* a hit that returns a list the table no longer gives
C20_Witness ==
    /\ ListReturned /\ ~lret.fetched
    /\ lret.list # GetAll(lret.pq, table)

\* C21: with the cache disabled a list request reads no cache and is served
\* from the store.
C21_DisabledBypassesCache ==
    (rdb = NilClient /\ ListReturned) =>
        /\ lret.reads = 0
        /\ ~lret.panicked
        /\ lret.list = GetAll(lret.pq, table)

\* ------------------------------------------- claims on the request pipeline
Served == rq.stage = "done"

\* the request went through the step
Did(step) == \E i \in DOMAIN rq.trace : rq.trace[i] = step

C24_RegisterExecNeedsAuth ==
    (Served /\ rq.route = "execs.register" /\ rq.created # 0) =>
        /\ rq.accepted
        /\ rq.user.role \in {"admin", "manager"}

\* C30: a token issued by login for an account that still exists is accepted
\* by AuthTokenMiddleware, which puts the account's id and role in the
\* request context.
C30_LoginTokenAccepted ==
    (Did("auth") /\ rq.hdr = "held" /\ rq.tok.via = "login"
        /\ rq.existed) =>
        /\ rq.accepted
        /\ rq.user = [id |-> rq.tok.sub.v, role |-> AuthUserRole(rq.tok.role)]

\* --------------------------------------------------- claims on attendance
\* C25: BulkMark is all or nothing: when it returns nil every pair of the map
\* is upserted and no other row changed; when a statement or the commit fails
\* it returns that error and the records are as before the call; an empty map
\* returns nil and changes nothing.
C25_BulkMarkAtomic ==
    bret.ret =>
        /\ bret.err = "" =>
            /\ \A s \in Students :
                 att[s] = IF bret.map[s] # "" THEN bret.map[s]
                          ELSE bret.before[s]
            /\ bret.failed = ""
        /\ bret.err # "" =>
            /\ att = bret.before
            /\ bret.err \in TxErrors
            /\ bret.failed # ""
        /\ bret.map = NoRows =>
            /\ bret.err = ""
            /\ att = bret.before
            /\ ~bret.began

C25_Witness ==
    /\ bret.ret
    /\ bret.failed = "exec"
    /\ bret.execs = 1
    /\ bret.map[1] = "absent"
    /\ bret.before[1] = "present"
    /\ att[1] = "present"

\* ------------------------------------------ claims on the limiter, again
\* C26: under fair scheduling every Allow call that has started returns: no
\* interleaving of Allow calls and sweeps blocks a call forever.
C26_AllowReturns ==
    \A t \in Threads : (pc[t] # "idle") ~> (pc[t] = "idle")

\* a call waits for the mutex of a bucket another call holds
C26_Witness ==
    /\ pc["t1"] = "lock"
    /\ pc["t2"] = "locked"
    /\ tb["t1"] = tb["t2"]
    /\ heap[tb["t1"]].locked

\* a call is in progress for the client
Calling(c) == \E t \in Threads : ip[t] = c

\* C27: a tick delivered more than 2 * window after a bucket's lastRefill
\* leads to the bucket's removal from the map unless a further Allow call
\* arrives for the client; and the sweep keeps running: every tick is taken
\* from the channel and every sweep ends waiting for the next tick.
C27_IdleBucketRemoved ==
    /\ \A c \in Clients :
          (/\ tickC # Nil
           /\ clients[c] # Nil
           /\ tickC - heap[clients[c]].lastRefill > 2 * window)
              ~> (clients[c] = Nil \/ Calling(c))
    /\ (tickC # Nil) ~> (tickC = Nil)
    /\ (spc # "wait") ~> (spc = "wait")

\* the sweep found the idle bucket expired and is about to delete its key
C27_Witness ==
    /\ spc = "delete"
    /\ delKey = "c1"
    /\ ~Calling("c1")
    /\ clients["c1"] # Nil

\* C28: two admitted calls of one client that follow each other are at least
\* the refill time of one token apart once the burst is used up: with a
\* burst of 1, the calls admitted within an interval of length T are at most
\* burst + rate * T.
C28_AdmittedWithinRate ==
    (Returned /\ ret.admitted /\ ret.prevWait = -1 /\ ret.gap >= 0) =>
        2 * One <= Cap + ret.gap * burst

====
